---------------------------- MODULE Spec2Model ----------------------------
(***************************************************************************)
(* Model of app.py (Cozza-Arasu RAG assistant): the character chunker      *)
(* chunk_text, the budgeted selector select_top_chunks and the Ask flow of *)
(* the Streamlit script.  Strings are sequences of one-character strings.  *)
(***************************************************************************)
EXTENDS Integers, Sequences, FiniteSets

(* ------------------------------ bounds -------------------------------- *)
MaxTextLen == 4
MaxSize == 3
MaxOverlap == 4
MaxPool == 4
MaxChunkLen == 3
MaxTopK == 2
MaxBudget == 3
MaxQLen == 3
MaxDocs == 2
MaxDocLen == 1

(* -------------------------- program constants ------------------------- *)
CHUNK_SIZE == 900
CHUNK_OVERLAP == 150
TOP_K == 5
CONTEXT_CHAR_BUDGET == 3500
MAX_QUESTION_WORDS == 200

(* ------------------------------ state --------------------------------- *)
VARIABLES
  text,      \* chunk_text: the text argument, rebound to its normalised form
  size,      \* chunk_text: window size
  overlap,   \* chunk_text: configured overlap
  start,     \* chunk_text: start of the next window
  chunks,    \* chunk_text: the raw windows appended so far
  spans,     \* chunk_text: the [start, end) bounds of each slice taken
  out,       \* chunk_text: the returned list
  cpc,       \* chunk_text: "idle" | "call" | "loop" | "done"
  pool,      \* select_top_chunks: the chunks argument
  top_k,     \* select_top_chunks: top_k
  budget,    \* select_top_chunks: budget
  sims,      \* select_top_chunks: the similarity score of each chunk
  ranked,    \* select_top_chunks: chunk indices in ranked order
  pos,       \* select_top_chunks: position of the loop in ranked[: top_k * 3]
  selected,  \* select_top_chunks: the accepted chunks
  picked,    \* select_top_chunks: the idx of each accepted chunk
  used,      \* select_top_chunks: characters used so far
  spc,       \* select_top_chunks: "idle" | "call" | "loop" | "done"
  q,         \* script: the text of the question box
  all_chunks,\* script: the chunk pool of this run
  ui,        \* script: what this run displayed: "idle" | "info" | "answered" | "error"
  called,    \* script: this run called client.chat.completions.create
  support    \* script: the chunks retrieved by this run

chunkVars == <<text, size, overlap, start, chunks, spans, out, cpc>>
selVars == <<pool, top_k, budget, sims, ranked, pos, selected, picked, used, spc>>
askVars == <<q, all_chunks, ui, called, support>>
vars == <<chunkVars, selVars, askVars>>

\* a component that is not running
IdleChunk ==
  /\ text = <<>> /\ size = CHUNK_SIZE /\ overlap = CHUNK_OVERLAP /\ start = 0
  /\ chunks = <<>> /\ spans = <<>> /\ out = <<>> /\ cpc = "idle"

IdleSelect ==
  /\ pool = <<>> /\ top_k = TOP_K /\ budget = CONTEXT_CHAR_BUDGET /\ sims = <<>>
  /\ ranked = <<>> /\ pos = 0 /\ selected = <<>> /\ picked = <<>> /\ used = 0
  /\ spc = "idle"

IdleAsk ==
  /\ q = <<>> /\ all_chunks = <<>> /\ ui = "off" /\ called = FALSE /\ support = <<>>

(* ----------------------------- strings -------------------------------- *)
Alphabet == {"a", " ", "\r", "\n"}

Min2(a, b) == IF a <= b THEN a ELSE b

SetMin(S) == CHOOSE x \in S : \A y \in S : x <= y

SetMax(S) == CHOOSE x \in S : \A y \in S : x >= y

SeqsUpTo(S, n) == UNION {[1..k -> S] : k \in 0..n}

\* str.isspace for the characters of the model
IsSpace(c) == c \in {" ", "\n", "\r", "\t"}

\* text.replace("\r\n", "\n"): occurrences of "\r\n" cannot overlap, so the
\* leftmost non-overlapping replacement deletes exactly the "\r" characters
\* that are directly followed by "\n".  The range lo..hi is halved so that
\* long texts are rebuilt at logarithmic depth.
StartsCRLF(s, i) == i < Len(s) /\ s[i] = "\r" /\ s[i + 1] = "\n"

RECURSIVE ReplaceRange(_, _, _)
ReplaceRange(s, lo, hi) ==
  IF lo > hi THEN <<>>
  ELSE IF lo = hi THEN (IF StartsCRLF(s, lo) THEN <<>> ELSE <<s[lo]>>)
  ELSE LET mid == (lo + hi) \div 2
       IN ReplaceRange(s, lo, mid) \o ReplaceRange(s, mid + 1, hi)

ReplaceCRLF(s) == ReplaceRange(s, 1, Len(s))

\* c.strip()
Strip(s) ==
  LET keep == {i \in 1..Len(s) : ~IsSpace(s[i])}
  IN IF keep = {} THEN <<>> ELSE SubSeq(s, SetMin(keep), SetMax(keep))

\* text[a:b] for 0 <= a <= b <= len(text)
Slice(s, a, b) == SubSeq(s, a + 1, b)

(* ----------------------------- chunk_text ----------------------------- *)
\* end = min(start + size, N)
WindowEnd(st, sz, n) == Min2(st + sz, n)

\* the unguarded advance: start = end - overlap
NextStart_NoGuard(st, end, ov) == end - ov

\* a forced advance of one character instead of to the window's end
NextStart_ForceOne(st, end, ov) == IF end - ov > st THEN end - ov ELSE st + 1

\* the overlap added instead of subtracted
NextStart_AddOverlap(st, end, ov) == IF end + ov > st THEN end + ov ELSE end

\* next_start = end - overlap; start = next_start if next_start > start else end
NextStart(st, end, ov) == IF end - ov > st THEN end - ov ELSE end

NonEmpty(c) == c # <<>>

\* filtering on the raw window and returning it untrimmed
StripAll_NoTrim(cs) == SelectSeq(cs, NonEmpty)

\* [c.strip() for c in chunks if c.strip()]
StripAll(cs) == SelectSeq([i \in 1..Len(cs) |-> Strip(cs[i])], NonEmpty)

\* lines 51-58 on an already normalised text, as a function of its inputs
RECURSIVE RawWindows(_, _, _, _)
RawWindows(t, sz, ov, st) ==
  IF st < Len(t)
  THEN LET end == WindowEnd(st, sz, Len(t))
       IN <<Slice(t, st, end)>> \o RawWindows(t, sz, ov, NextStart(st, end, ov))
  ELSE <<>>

chunk_text(t, sz, ov) == StripAll(RawWindows(ReplaceCRLF(t), sz, ov, 0))

DocA == [i \in 1..2000 |-> "A"]

ChunkInputs ==
  {<<t, s, o>> : t \in SeqsUpTo(Alphabet, MaxTextLen), s \in 1..MaxSize, o \in 0..MaxOverlap}
    \cup {<<DocA, CHUNK_SIZE, CHUNK_OVERLAP>>}

InitChunk ==
  /\ \E in \in ChunkInputs : text = in[1] /\ size = in[2] /\ overlap = in[3]
  /\ start = 0
  /\ chunks = <<>>
  /\ spans = <<>>
  /\ out = <<>>
  /\ cpc = "call"
  /\ IdleSelect
  /\ IdleAsk

\* lines 50-52
ChunkBegin ==
  /\ cpc = "call"
  /\ text' = ReplaceCRLF(text)
  /\ chunks' = <<>>
  /\ start' = 0
  /\ cpc' = "loop"
  /\ UNCHANGED <<size, overlap, spans, out, selVars, askVars>>

\* lines 53-57: one iteration of the while loop
ChunkIter ==
  /\ cpc = "loop"
  /\ start < Len(text)
  /\ LET end == WindowEnd(start, size, Len(text))
     IN /\ chunks' = Append(chunks, Slice(text, start, end))
        /\ spans' = Append(spans, [start |-> start, end |-> end])
        /\ start' = NextStart(start, end, overlap)
  /\ UNCHANGED <<text, size, overlap, out, cpc, selVars, askVars>>

\* line 58: the loop has ended
ChunkReturn ==
  /\ cpc = "loop"
  /\ ~(start < Len(text))
  /\ out' = StripAll(chunks)
  /\ cpc' = "done"
  /\ UNCHANGED <<text, size, overlap, start, chunks, spans, selVars, askVars>>

NextChunk == ChunkBegin \/ ChunkIter \/ ChunkReturn

SpecChunk == InitChunk /\ [][NextChunk]_vars

FairSpecChunk == SpecChunk /\ WF_vars(NextChunk)

(* -------------------------- select_top_chunks ------------------------- *)
\* the similarity levels a chunk can receive
Scores == {0, 1}

ChunkOfLen(n) == [i \in 1..n |-> "a"]

Pools == SeqsUpTo({ChunkOfLen(n) : n \in 1..MaxChunkLen}, MaxPool)

RECURSIVE SumLen(_)
SumLen(cs) == IF cs = <<>> THEN 0 ELSE Len(cs[1]) + SumLen(Tail(cs))

\* tuple comparison of (score, idx) pairs
TupleLess(a, b) == a[1] < b[1] \/ (a[1] = b[1] /\ a[2] < b[2])

\* ties broken by the lower index first
Ranked_TiesAscending(s) ==
  LET n == Len(s)
      before(j, i) == s[j] > s[i] \/ (s[j] = s[i] /\ j < i)
  IN [p \in 1..n |-> CHOOSE i \in 1..n : Cardinality({j \in 1..n : before(j, i)}) = p - 1]

\* sorted(zip(sims, range(len(chunks))), reverse=True), as the idx of each pair:
\* the pair at position p has exactly p - 1 pairs greater than it
Ranked(s) ==
  LET n == Len(s)
  IN [p \in 1..n |->
        CHOOSE i \in 1..n :
          Cardinality({j \in 1..n : TupleLess(<<s[i], i>>, <<s[j], j>>)}) = p - 1]

\* the whole ranking instead of its head
Candidates_All(r, k) == r

\* ranked[: top_k * 3]
Candidates(r, k) == SubSeq(r, 1, Min2(k * 3, Len(r)))

\* the budget compared before the candidate is added
Fits_BeforeAdding(u, c, b) == u <= b

\* used + len(c) <= budget
Fits(u, c, b) == u + Len(c) <= b

\* the scan ended at the first candidate that does not fit
LoopBody_BreakOnReject(st, idx, chs, k, b) ==
  LET c == chs[idx]
      fit == Fits(st.used, c, b)
      sel == IF fit THEN Append(st.selected, c) ELSE st.selected
      pk == IF fit THEN Append(st.picked, idx) ELSE st.picked
      u == IF fit THEN st.used + Len(c) ELSE st.used
  IN [selected |-> sel, picked |-> pk, used |-> u,
      brk |-> (~fit \/ Len(sel) >= k \/ u >= b)]

\* lines 98-103: the body of the packing loop for candidate idx
LoopBody(st, idx, chs, k, b) ==
  LET c == chs[idx]
      fit == Fits(st.used, c, b)
      sel == IF fit THEN Append(st.selected, c) ELSE st.selected
      pk == IF fit THEN Append(st.picked, idx) ELSE st.picked
      u == IF fit THEN st.used + Len(c) ELSE st.used
  IN [selected |-> sel, picked |-> pk, used |-> u,
      brk |-> (Len(sel) >= k \/ u >= b)]

\* lines 96-104 as a function of the ranking
RECURSIVE PackFrom(_, _, _, _, _, _)
PackFrom(st, cands, p, chs, k, b) ==
  IF p > Len(cands) \/ st.brk THEN st
  ELSE PackFrom(LoopBody(st, cands[p], chs, k, b), cands, p + 1, chs, k, b)

\* select_top_chunks for the scores s that the vectoriser gives the chunks
select_top_chunks(s, chs, k, b) ==
  IF chs = <<>> THEN <<>>
  ELSE PackFrom([selected |-> <<>>, picked |-> <<>>, used |-> 0, brk |-> FALSE],
                Candidates(Ranked(s), k), 1, chs, k, b).selected

InitSelect ==
  /\ pool \in Pools
  /\ top_k \in 1..MaxTopK
  /\ budget \in 0..MaxBudget
  /\ sims = <<>> /\ ranked = <<>> /\ pos = 0
  /\ selected = <<>> /\ picked = <<>> /\ used = 0
  /\ spc = "call"
  /\ IdleChunk
  /\ IdleAsk

\* lines 88-96: the empty pool returns at once; otherwise the chunks are
\* scored and ranked and the packing starts
SelectCall ==
  /\ spc = "call"
  /\ \/ /\ pool = <<>>
        /\ spc' = "done"
        /\ UNCHANGED <<sims, ranked, pos>>
     \/ /\ pool # <<>>
        /\ \E s \in [1..Len(pool) -> Scores] : sims' = s /\ ranked' = Ranked(s)
        /\ pos' = 1
        /\ spc' = "loop"
  /\ selected' = <<>>
  /\ picked' = <<>>
  /\ used' = 0
  /\ UNCHANGED <<pool, top_k, budget, chunkVars, askVars>>

\* lines 97-103: one iteration of the packing loop
SelectIter ==
  /\ spc = "loop"
  /\ pos <= Len(Candidates(ranked, top_k))
  /\ LET st == LoopBody([selected |-> selected, picked |-> picked, used |-> used,
                         brk |-> FALSE],
                        Candidates(ranked, top_k)[pos], pool, top_k, budget)
     IN /\ selected' = st.selected
        /\ picked' = st.picked
        /\ used' = st.used
        /\ spc' = IF st.brk THEN "done" ELSE "loop"
  /\ pos' = pos + 1
  /\ UNCHANGED <<pool, top_k, budget, sims, ranked, chunkVars, askVars>>

\* line 104 after the candidates are exhausted
SelectReturn ==
  /\ spc = "loop"
  /\ pos > Len(Candidates(ranked, top_k))
  /\ spc' = "done"
  /\ UNCHANGED <<pool, top_k, budget, sims, ranked, pos, selected, picked, used,
                 chunkVars, askVars>>

NextSelect == SelectCall \/ SelectIter \/ SelectReturn

SpecSelect == InitSelect /\ [][NextSelect]_vars

(* ------------------------------ Ask flow ------------------------------ *)
QAlphabet == {"a", " ", "?"}

\* the characters matched by \w
IsWordChar(c) == c \in {"a", "A", "b", "0", "_"}

\* len(re.findall(r"\b\w+\b", text or "")): the maximal runs of word characters
count_words(t) ==
  Cardinality({i \in 1..Len(t) : IsWordChar(t[i]) /\ (i = 1 \/ ~IsWordChar(t[i - 1]))})

\* a question of n one-letter words
WordsText(n) == [i \in 1..(2 * n) |-> IF i % 2 = 1 THEN "a" ELSE " "]

Questions ==
  SeqsUpTo(QAlphabet, MaxQLen)
    \cup {WordsText(n) : n \in (MAX_QUESTION_WORDS - 1)..(MAX_QUESTION_WORDS + 1)}

\* the texts a loaded file can hold
DocTexts == SeqsUpTo({"a", " "}, MaxDocLen)

RECURSIVE ChunksOf(_)
ChunksOf(docs) ==
  IF docs = <<>> THEN <<>>
  ELSE chunk_text(docs[1], CHUNK_SIZE, CHUNK_OVERLAP) \o ChunksOf(Tail(docs))

\* submission stays enabled for a question that is too long
ask_disabled_NoUpperLimit(t) == count_words(t) = 0

\* ask_disabled = (words == 0) or (words > MAX_QUESTION_WORDS)
ask_disabled(t) == count_words(t) = 0 \/ count_words(t) > MAX_QUESTION_WORDS

\* the first run of the script: empty question box, built-in source
InitAsk ==
  /\ q = <<>>
  /\ \E docs \in SeqsUpTo(DocTexts, MaxDocs) : all_chunks = ChunksOf(docs)
  /\ ui = "idle"
  /\ called = FALSE
  /\ support = <<>>
  /\ IdleChunk
  /\ IdleSelect

\* a rerun after the question box changed (lines 155-165, Ask not pressed)
EditQuestion ==
  /\ \E nq \in Questions : q' = nq
  /\ ui' = "idle"
  /\ called' = FALSE
  /\ support' = <<>>
  /\ UNCHANGED <<all_chunks, chunkVars, selVars>>

\* a rerun after the source or the uploaded files changed (lines 128-149)
SetSource ==
  /\ \E docs \in SeqsUpTo(DocTexts, MaxDocs) : all_chunks' = ChunksOf(docs)
  /\ ui' = "idle"
  /\ called' = FALSE
  /\ support' = <<>>
  /\ UNCHANGED <<q, chunkVars, selVars>>

\* a rerun with the Ask button pressed (lines 165-196); a disabled button
\* cannot be pressed
ClickAsk ==
  /\ ~ask_disabled(q)
  /\ Strip(q) # <<>>
  /\ \/ /\ all_chunks = <<>>
        /\ ui' = "info"
        /\ called' = FALSE
        /\ support' = <<>>
     \/ /\ all_chunks # <<>>
        /\ ui' = "error"
        /\ called' = FALSE
        /\ support' = <<>>
     \/ /\ all_chunks # <<>>
        /\ \E s \in [1..Len(all_chunks) -> Scores] :
             support' = select_top_chunks(s, all_chunks, TOP_K, CONTEXT_CHAR_BUDGET)
        /\ called' = TRUE
        /\ ui' \in {"answered", "error"}
  /\ UNCHANGED <<q, all_chunks, chunkVars, selVars>>

NextAsk == EditQuestion \/ SetSource \/ ClickAsk

SpecAsk == InitAsk /\ [][NextAsk]_vars

(* ============================ chunk_text claims ======================= *)
Lens(cs) == [k \in 1..Len(cs) |-> Len(cs[k])]

HasText(w) == \E i \in 1..Len(w) : ~IsSpace(w[i])

\* C1: chunk_text terminates for every size > 0 and overlap >= 0, overlap >=
\* size included: every loop iteration strictly increases start, and the call
\* reaches its return with start >= len(text).
C1_Terminates ==
  /\ [][(cpc = "loop" /\ start < Len(text)) => start' > start]_vars
  /\ <>(cpc = "done" /\ start >= Len(text))

C1_Witness == cpc = "done" /\ overlap >= size /\ Len(spans) >= 3

\* C2 as stated: "A"*2000 with size 900 and overlap 150 yields exactly three
\* chunks, of lengths 900, 900 and 350.
C2_Original ==
  (cpc = "done" /\ text = DocA /\ size = CHUNK_SIZE /\ overlap = CHUNK_OVERLAP)
    => Lens(out) = <<900, 900, 350>>

\* C2 as amended: "A"*2000 with size 900 and overlap 150 yields exactly four
\* chunks, of lengths 900, 900, 500 and 150, in that order.
C2_DocAChunks ==
  (cpc = "done" /\ text = DocA /\ size = CHUNK_SIZE /\ overlap = CHUNK_OVERLAP)
    => Lens(out) = <<900, 900, 500, 150>>

C2_Witness == cpc = "done" /\ text = DocA /\ Len(out) = 4

\* C4: every returned chunk is non-empty, has no leading or trailing
\* whitespace and is at most size long; the returned chunks are exactly the
\* windows holding a non-whitespace character, so a whitespace-only window
\* contributes none.
C4_ChunksTrimmed ==
  cpc = "done" =>
    /\ \A k \in 1..Len(out) :
         /\ out[k] # <<>>
         /\ ~IsSpace(out[k][1])
         /\ ~IsSpace(out[k][Len(out[k])])
         /\ Len(out[k]) <= size
    /\ Len(out) = Cardinality({k \in 1..Len(chunks) : HasText(chunks[k])})

C4_Witness ==
  /\ cpc = "done"
  /\ \E k \in 1..Len(chunks) : chunks[k] # <<>> /\ ~HasText(chunks[k])
  /\ \E k \in 1..Len(chunks) :
       HasText(chunks[k]) /\ IsSpace(chunks[k][1]) /\ IsSpace(chunks[k][Len(chunks[k])])

\* C5: with 0 <= overlap < size the windows cut before trimming cover every
\* position of the normalised text: the first starts at 0, each next one
\* starts at or before the previous window's end, the last ends at len(text).
C5_WindowsCover ==
  (cpc = "done" /\ overlap < size) =>
    /\ \A p \in 0..(Len(text) - 1) :
         \E k \in 1..Len(spans) : spans[k].start <= p /\ p < spans[k].end
    /\ Len(text) > 0 =>
         /\ spans # <<>>
         /\ spans[1].start = 0
         /\ \A k \in 1..(Len(spans) - 1) : spans[k + 1].start <= spans[k].end
         /\ spans[Len(spans)].end = Len(text)
    /\ Len(chunks) = Len(spans)
    /\ \A k \in 1..Len(spans) : chunks[k] = Slice(text, spans[k].start, spans[k].end)

C5_Witness ==
  cpc = "done" /\ 0 < overlap /\ overlap < size /\ Len(spans) >= 3

\* C6: for a non-empty text and overlap >= size every window is followed by
\* the forced advance to its end, the windows are the disjoint consecutive
\* windows of size characters (the last possibly shorter), and the result is
\* the result for overlap = 0.
C6_DegenerateOverlap ==
  (cpc = "done" /\ text # <<>> /\ overlap >= size) =>
    /\ Len(spans) * size >= Len(text)
    /\ (Len(spans) - 1) * size < Len(text)
    /\ \A k \in 1..Len(spans) :
         /\ spans[k].start = (k - 1) * size
         /\ spans[k].end = Min2(k * size, Len(text))
         /\ spans[k].end - overlap <= spans[k].start
    /\ start = spans[Len(spans)].end
    /\ out = StripAll(RawWindows(text, size, 0, 0))

C6_Witness ==
  cpc = "done" /\ overlap > size /\ size > 1 /\ Len(spans) >= 2 /\ Len(out) >= 2

(* ======================== select_top_chunks claims ==================== *)
\* position of chunk idx in the ranking
RankPos(idx) == CHOOSE p \in 1..Len(ranked) : ranked[p] = idx

IsPicked(idx) == \E j \in 1..Len(picked) : picked[j] = idx

\* the characters already used when the candidate at rank p was examined
UsedBefore(p) ==
  LET earlier == SelectSeq(picked, LAMBDA i : RankPos(i) < p)
  IN SumLen([j \in 1..Len(earlier) |-> pool[earlier[j]]])

\* the number of candidates the packing loop may examine
Lookahead == Min2(3 * top_k, Len(pool))

\* C3: the selection, after every iteration and on return, has total length
\* <= budget and at most top_k chunks, whatever the scores.
C3_BudgetAndCount ==
  /\ SumLen(selected) <= budget
  /\ Len(selected) <= top_k
  /\ used = SumLen(selected)

C3_Witness ==
  /\ spc = "done"
  /\ top_k >= 2
  /\ Len(selected) = top_k
  /\ SumLen(selected) = budget
  /\ Len(picked) < pos - 1

\* C7: a candidate that does not fit is skipped without ending the scan; an
\* examined candidate is accepted exactly when it fits at that moment; and a
\* return with fewer than top_k chunks and used < budget has examined all of
\* the first 3 * top_k candidates, each unselected one not fitting when examined.
C7_SkipKeepsScanning ==
  /\ [][(/\ spc = "loop"
         /\ pos <= Lookahead
         /\ used + Len(pool[ranked[pos]]) > budget
         /\ Len(selected) < top_k
         /\ used < budget)
        => (spc' = "loop" /\ pos' = pos + 1 /\ selected' = selected)]_vars
  /\ []((spc \in {"loop", "done"} /\ pool # <<>>) =>
         /\ \A p \in 1..(pos - 1) :
              IsPicked(ranked[p]) <=> (UsedBefore(p) + Len(pool[ranked[p]]) <= budget)
         /\ (spc = "done" /\ Len(selected) < top_k /\ used < budget) =>
              /\ pos - 1 = Lookahead
              /\ \A p \in 1..Lookahead :
                   ~IsPicked(ranked[p]) => UsedBefore(p) + Len(pool[ranked[p]]) > budget)

C7_Witness ==
  /\ spc = "done"
  /\ Len(selected) < top_k
  /\ used < budget
  /\ \E p1, p2 \in 1..(pos - 1) :
       p1 < p2 /\ ~IsPicked(ranked[p1]) /\ IsPicked(ranked[p2])

C10_BoundedLookahead ==
  (spc \in {"loop", "done"} /\ pool # <<>>) =>
    /\ \A j \in 1..Len(picked) : RankPos(picked[j]) <= 3 * top_k
    /\ pos - 1 <= 3 * top_k

C10_Witness ==
  /\ spc = "done"
  /\ Len(pool) > 3 * top_k
  /\ Len(selected) < top_k
  /\ \E p \in (3 * top_k + 1)..Len(ranked) : used + Len(pool[ranked[p]]) <= budget

(* =============================== Ask claims =========================== *)
\* C8: the hosted model is called only for a question of 1 to 200 words and
\* a non-empty pool; with 0 or more than 200 words nothing is submitted; with
\* an empty pool the run shows the informational message and neither
\* retrieves nor calls the model.
C8_CallGuarded ==
  /\ called => (count_words(q) >= 1 /\ count_words(q) <= 200 /\ all_chunks # <<>>)
  /\ (count_words(q) = 0 \/ count_words(q) > 200) =>
       (ui = "idle" /\ ~called /\ support = <<>>)
  /\ (all_chunks = <<>> /\ ui # "idle") => (ui = "info" /\ ~called /\ support = <<>>)
  /\ ui = "info" => all_chunks = <<>>

C8_Witness ==
  called /\ count_words(q) = 200 /\ ui = "answered" /\ Len(support) = 2

=============================================================================
